---- MODULE Spec2Model ----
(***************************************************************************)
(* catboost-rs: the Model wrapper of src/src/model.rs over the native      *)
(* scoring engine (catboost_sys).  The native engine is an opaque          *)
(* collaborator: its return statuses and the scores it writes are chosen   *)
(* nondeterministically; what the wrapper does with them is translated     *)
(* from the Rust source.                                                   *)
(***************************************************************************)
EXTENDS Integers, Sequences, FiniteSets, TLC

\* ------------------------------------------------------------------ bounds
MaxHandles == 2     \* ModelCalcerCreate calls in one run of the shared phase
MaxScored == 1      \* ModelCalcerCreate calls in one run of the scoring phase
MaxRows == 2        \* rows of a feature batch
MaxPathLen == 1     \* bytes of a path or of a model buffer

Handles == 1..MaxHandles
Threads == {"t1", "t2"}
Caller == {"t1"}

\* all sequences over S of length at most n
RECURSIVE SeqsUpTo(_, _)
SeqsUpTo(S, n) ==
    IF n = 0 THEN {<<>>}
    ELSE LET shorter == SeqsUpTo(S, n - 1)
         IN  shorter \cup {Append(s, x) : s \in {q \in shorter : Len(q) = n - 1}, x \in S}

\* a path or buffer byte: the zero byte and one other
Bytes == {0, 97}
Paths == SeqsUpTo(Bytes, MaxPathLen)
Buffers == SeqsUpTo(Bytes, MaxPathLen)
\* float rows of two widths, so that a batch can be ragged; categorical rows of one
FloatRows == {<<>>, <<1>>}
CatRows == {<<"south">>}
FloatBatches == SeqsUpTo(FloatRows, MaxRows)
CatBatches == SeqsUpTo(CatRows, MaxRows)
\* a batch: the float rows and the categorical rows handed to a prediction
Batches == FloatBatches \X CatBatches
\* the batches the threads of the shared phase score: one well-formed row, and a pair
\* of rows whose second float row is short
SharedBatches == {<< <<<<1>>>>, <<<<"south">>>> >>,
                  << <<<<1>>, <<>>>>, <<<<"south">>, <<"south">>>> >>}
\* raw scores the engine may write into one output entry
Scores == {-1, 2}
\* what a load can populate a handle with: a model of one output dimension, or of two
ModelContents ==
    {[float_features |-> 1, cat_features |-> 1, trees |-> 1000, dimensions |-> d] : d \in {1, 2}}
\* the models the threads of the shared phase load: those of one output dimension
SharedContents == {c \in ModelContents : c.dimensions = 1}
NoContent == [float_features |-> 0, cat_features |-> 0, trees |-> 0, dimensions |-> 0]

Loaders == {"load", "load_buffer"}
Predictions == {"calc_model_prediction", "calc_predict_proba"}
Getters == {"get_float_features_count", "get_cat_features_count",
            "get_tree_count", "get_dimensions_count"}

VARIABLES
    native,     \* the engine: per handle, created / loaded / number of deletes / content
    models,     \* the Model values of the program: state and the handle field
    inflight,   \* per thread: the native call on a handle it is blocked in
    last        \* per thread, between two calls: the operation it completed last

vars == <<native, models, inflight, last>>

\* ------------------------------------------------------------------ values
NoArgs == [handle |-> 0, doc_count |-> 0, float_size |-> 0, cat_size |-> 0, result_size |-> 0]
NoCall == [op |-> "none", model |-> 0, ff |-> <<>>, cf |-> <<>>, hashes |-> 0, args |-> NoArgs]
NoResult == [kind |-> "None", val |-> <<>>]
NoOp == [op |-> "none", model |-> 0, ff |-> <<>>, cf |-> <<>>,
         calls |-> 0, hashes |-> 0, args |-> NoArgs, ret |-> "none",
         raw |-> NoResult, result |-> NoResult]

Ok(v) == [kind |-> "Ok", val |-> v]
Err == [kind |-> "Err", val |-> <<>>]
Panic == [kind |-> "Panic", val |-> <<>>]

Status(b) == IF b THEN "true" ELSE "false"

Init ==
    /\ native = [h \in Handles |->
                   [created |-> FALSE, loaded |-> FALSE, deletes |-> 0, content |-> NoContent]]
    /\ models = [m \in Handles |-> [state |-> "absent", handle |-> 0, initial |-> 0]]
    /\ inflight = [t \in Threads |-> NoCall]
    /\ last = [t \in Threads |-> NoOp]

\* the process is alive: no native call has brought it down
Running == \A t \in Threads : inflight[t].op # "aborted"

\* ------------------------------------------------------------ the engine
\* ModelCalcerCreate returns a handle not handed out before
FreshHandle == 1 + Cardinality({h \in Handles : native[h].created})

ModelCalcerCreate(nat, h) == [nat EXCEPT ![h].created = TRUE]

\* LoadFullModelFromFile / LoadFullModelFromBuffer: on success the handle is populated
NativeLoad(nat, h, ret, content) ==
    IF ret THEN [nat EXCEPT ![h].loaded = TRUE, ![h].content = content] ELSE nat

\* ModelCalcerDelete destroys the model behind the handle
ModelCalcerDelete(nat, h) ==
    [nat EXCEPT ![h].deletes = @ + 1, ![h].loaded = FALSE, ![h].content = NoContent]

\* --------------------------------------------------------- ErrorTranslation
\* CatBoostError::check_return_value: false is an error carrying the engine's message
check_return_value(ret) == IF ret THEN "Ok" ELSE "Err"

\* ------------------------------------------------------------------- Model
\* Model::new: a Model around a freshly created handle
new(h) == [state |-> "owned", handle |-> h, initial |-> h]

\* a drop that forgets the handle
drop_leak(nat, model) == nat
\* impl Drop for Model: the stored handle is deleted
drop(nat, model) == ModelCalcerDelete(nat, model.handle)

\* CString::new fails on an interior zero byte
HasNul(bytes) == \E i \in 1..Len(bytes) : bytes[i] = 0

\* a load that does not look at the status of LoadFullModelFromFile
load_kind_unchecked(path, ret) == IF HasNul(path) THEN "Panic" ELSE "Ok"
\* Model::load, after Model::new: "Panic" when unwrap() meets the CString error,
\* else the translated status of LoadFullModelFromFile
load_kind(path, ret) == IF HasNul(path) THEN "Panic" ELSE check_return_value(ret)

\* Model::load_buffer, after Model::new: the translated status of LoadFullModelFromBuffer
load_buffer_kind(buffer, ret) == check_return_value(ret)

\* the common tail of both loaders: Ok(model) hands the Model to the caller, every
\* other path leaves the function with `model` still a local, which is dropped
Loaded(t, op, h, calls, ret, content, kind) ==
    LET model == new(h)
        nat1 == ModelCalcerCreate(native, h)
        nat2 == IF calls = 1 THEN NativeLoad(nat1, h, ret, content) ELSE nat1
    IN  /\ native' = IF kind = "Ok" THEN nat2 ELSE drop(nat2, model)
        /\ models' = [models EXCEPT ![h] =
                         IF kind = "Ok" THEN model ELSE [model EXCEPT !.state = "dropped"]]
        /\ last' = [last EXCEPT ![t] =
                       [NoOp EXCEPT !.op = op, !.model = h, !.calls = calls,
                                    !.ret = IF calls = 1 THEN Status(ret) ELSE "none",
                                    !.result = IF kind = "Ok" THEN Ok(<<h>>)
                                               ELSE IF kind = "Err" THEN Err ELSE Panic]]
        /\ UNCHANGED inflight

load(t, path, ret, content) ==
    /\ Running
    /\ inflight[t].op = "none"
    /\ FreshHandle \in Handles
    /\ Loaded(t, "load", FreshHandle, IF HasNul(path) THEN 0 ELSE 1,
              ret, content, load_kind(path, ret))

load_buffer(t, buffer, ret, content) ==
    /\ Running
    /\ inflight[t].op = "none"
    /\ FreshHandle \in Handles
    /\ Loaded(t, "load_buffer", FreshHandle, 1, ret, content,
              load_buffer_kind(buffer, ret))

\* a drop that does not wait for the borrows of the Model to end
Drop_unguarded(m) ==
    /\ Running
    /\ models[m].state = "owned"
    /\ native' = drop(native, models[m])
    /\ models' = [models EXCEPT ![m].state = "dropped"]
    /\ UNCHANGED <<inflight, last>>
\* the owner lets go of a Model: drop(&mut self) needs that no &self borrow is live
Drop(m) ==
    /\ Running
    /\ models[m].state = "owned"
    /\ \A t \in Threads : inflight[t].model # m
    /\ native' = drop(native, models[m])
    /\ models' = [models EXCEPT ![m].state = "dropped"]
    /\ UNCHANGED <<inflight, last>>

\* ---------------------------------------------------------------- scoring
\* catboost_sys::GetStringCatFeatureHash is called once per categorical value
RECURSIVE HashCalls(_)
HashCalls(cf) == IF cf = <<>> THEN 0 ELSE Len(Head(cf)) + HashCalls(Tail(cf))

\* vec![0.0; float_features.len()]
prediction_len(ff) == Len(ff)

\* the arguments of CalcModelPredictionWithHashedCatFeatures, in the order they are evaluated
CalcArgs(model, ff, cf) ==
    [handle |-> model.handle, doc_count |-> Len(ff), float_size |-> Len(ff[1]),
     cat_size |-> Len(cf[1]), result_size |-> prediction_len(ff)]

\* float_features[0] and cat_features[0] are indexed while the arguments are built
IndexPanics(ff, cf) == Len(ff) = 0 \/ Len(cf) = 0

\* the engine reads float_size floats and cat_size hashes from each of doc_count rows
ReadsPastRows(call) ==
    \/ Len(call.cf) < call.args.doc_count
    \/ \E i \in 1..Len(call.ff) : Len(call.ff[i]) < call.args.float_size
    \/ \E i \in 1..Len(call.cf) : i <= call.args.doc_count /\ Len(call.cf[i]) < call.args.cat_size

\* calc_model_prediction up to the point where it blocks in the engine
CalcBegin(t, m, ff, cf, op) ==
    /\ Running
    /\ inflight[t].op = "none"
    /\ models[m].state = "owned"
    /\ IF IndexPanics(ff, cf)
       THEN /\ last' = [last EXCEPT ![t] =
                           [NoOp EXCEPT !.op = op, !.model = m, !.ff = ff, !.cf = cf,
                                        !.hashes = HashCalls(cf), !.raw = Panic,
                                        !.result = Panic]]
            /\ UNCHANGED inflight
       ELSE /\ inflight' = [inflight EXCEPT ![t] =
                               [op |-> op, model |-> m, ff |-> ff, cf |-> cf,
                                hashes |-> HashCalls(cf),
                                args |-> CalcArgs(models[m], ff, cf)]]
            /\ last' = [last EXCEPT ![t] = NoOp]
    /\ UNCHANGED <<native, models>>

calc_model_prediction(t, m, ff, cf) == CalcBegin(t, m, ff, cf, "calc_model_prediction")

calc_predict_proba(t, m, ff, cf) == CalcBegin(t, m, ff, cf, "calc_predict_proba")

\* a prediction that does not look at the status of the native call
calc_result_unchecked(ret, prediction) == Ok(prediction)
\* check_return_value(..)?; Ok(prediction)
calc_result(ret, prediction) ==
    IF check_return_value(ret) = "Ok" THEN Ok(prediction) ELSE Err

\* e^k in thousandths, for the exponents the scores need
ExpMilli(k) == CASE k = -2 -> 135 [] k = -1 -> 368 [] k = 0 -> 1000
                 [] k = 1 -> 2718 [] k = 2 -> 7389

\* 1. / (1. + (-x).exp()), in thousandths
sigmoid(x) == 1000000 \div (1000 + ExpMilli(-x))

Reverse(s) == [i \in 1..Len(s) |-> s[Len(s) + 1 - i]]

\* a transform that hands the probabilities back in reverse row order
proba_result_reversed(raw) ==
    IF raw.kind = "Ok" THEN Ok(Reverse([i \in 1..Len(raw.val) |-> sigmoid(raw.val[i])])) ELSE raw
\* let raw_results = self.calc_model_prediction(..)?; raw_results.into_iter().map(sigmoid)
proba_result(raw) ==
    IF raw.kind = "Ok" THEN Ok([i \in 1..Len(raw.val) |-> sigmoid(raw.val[i])]) ELSE raw

\* the engine returns from the prediction call: status `ret`, and the scores written over
\* the zero-filled buffer when it succeeded
CalcReturn(t, ret, written) ==
    LET call == inflight[t]
        zeroed == [i \in 1..call.args.result_size |-> 0]
        prediction == IF ret THEN written ELSE zeroed
        raw == calc_result(ret, prediction)
    IN  /\ Running
        /\ call.op \in Predictions
        /\ last' = [last EXCEPT ![t] =
                       [NoOp EXCEPT !.op = call.op, !.model = call.model, !.ff = call.ff,
                                    !.cf = call.cf, !.calls = 1, !.hashes = call.hashes,
                                    !.args = call.args, !.ret = Status(ret), !.raw = raw,
                                    !.result = IF call.op = "calc_predict_proba"
                                               THEN proba_result(raw) ELSE raw]]
        /\ inflight' = [inflight EXCEPT ![t] = NoCall]
        /\ UNCHANGED <<native, models>>

\* the engine read past a row it was given: the process may die in the call
NativeFault(t) ==
    /\ Running
    /\ inflight[t].op \in Predictions
    /\ ReadsPastRows(inflight[t])
    /\ inflight' = [inflight EXCEPT ![t].op = "aborted"]
    /\ UNCHANGED <<native, models, last>>

\* ----------------------------------------------------------- introspection
\* an accessor that clears the handle field as it reads it
GetterBegin_nulling(t, m, g) ==
    /\ Running
    /\ inflight[t].op = "none"
    /\ models[m].state = "owned"
    /\ inflight' = [inflight EXCEPT ![t] =
                       [NoCall EXCEPT !.op = g, !.model = m, !.args.handle = models[m].handle]]
    /\ models' = [models EXCEPT ![m].handle = 0]
    /\ last' = [last EXCEPT ![t] = NoOp]
    /\ UNCHANGED native
\* an accessor (&self) up to the point where it blocks in the engine
GetterBegin(t, m, g) ==
    /\ Running
    /\ inflight[t].op = "none"
    /\ models[m].state = "owned"
    /\ inflight' = [inflight EXCEPT ![t] =
                       [NoCall EXCEPT !.op = g, !.model = m, !.args.handle = models[m].handle]]
    /\ last' = [last EXCEPT ![t] = NoOp]
    /\ UNCHANGED <<native, models>>

get_float_features_count(t, m) == GetterBegin(t, m, "get_float_features_count")
get_cat_features_count(t, m) == GetterBegin(t, m, "get_cat_features_count")
get_tree_count(t, m) == GetterBegin(t, m, "get_tree_count")
get_dimensions_count(t, m) == GetterBegin(t, m, "get_dimensions_count")

\* GetFloatFeaturesCount / GetCatFeaturesCount / GetTreeCount / GetDimensionsCount
NativeCount(content, g) ==
    CASE g = "get_float_features_count" -> content.float_features
      [] g = "get_cat_features_count" -> content.cat_features
      [] g = "get_tree_count" -> content.trees
      [] g = "get_dimensions_count" -> content.dimensions

GetterReturn(t) ==
    LET call == inflight[t]
    IN  /\ Running
        /\ call.op \in Getters
        /\ last' = [last EXCEPT ![t] =
                       [NoOp EXCEPT !.op = call.op, !.model = call.model, !.calls = 1,
                                    !.args = call.args,
                                    !.result = Ok(<<NativeCount(native[call.args.handle].content,
                                                                call.op)>>)]]
        /\ inflight' = [inflight EXCEPT ![t] = NoCall]
        /\ UNCHANGED <<native, models>>

\* ------------------------------------------------------------ specifications
\* what the engine can write into the output buffer of thread t's call
Outputs(t) == [1..inflight[t].args.result_size -> Scores]

\* the scoring phase: one caller, every batch shape, models of every dimension
Next ==
    \/ \E t \in Caller, p \in Paths, r \in BOOLEAN, c \in ModelContents :
          FreshHandle <= MaxScored /\ load(t, p, r, c)
    \/ \E t \in Caller, buf \in Buffers, r \in BOOLEAN, c \in ModelContents :
          FreshHandle <= MaxScored /\ load_buffer(t, buf, r, c)
    \/ \E t \in Caller, m \in Handles, b \in Batches : calc_model_prediction(t, m, b[1], b[2])
    \/ \E t \in Caller, m \in Handles, b \in Batches : calc_predict_proba(t, m, b[1], b[2])
    \/ \E t \in Caller : \E r \in BOOLEAN, written \in Outputs(t) : CalcReturn(t, r, written)
    \/ \E t \in Caller : NativeFault(t)
    \/ \E t \in Caller, m \in Handles : get_float_features_count(t, m)
    \/ \E t \in Caller, m \in Handles : get_cat_features_count(t, m)
    \/ \E t \in Caller, m \in Handles : get_tree_count(t, m)
    \/ \E t \in Caller, m \in Handles : get_dimensions_count(t, m)
    \/ \E t \in Caller : GetterReturn(t)
    \/ \E m \in Handles : Drop(m)

Spec == Init /\ [][Next]_vars

\* the shared phase: several threads load Models and share them by reference
NextShared ==
    \/ \E t \in Threads, p \in Paths, r \in BOOLEAN, c \in SharedContents :
          load(t, p, r, c)
    \/ \E t \in Threads, buf \in Buffers, r \in BOOLEAN, c \in SharedContents :
          load_buffer(t, buf, r, c)
    \/ \E t \in Threads, m \in Handles, b \in SharedBatches : calc_model_prediction(t, m, b[1], b[2])
    \/ \E t \in Threads, m \in Handles, b \in SharedBatches : calc_predict_proba(t, m, b[1], b[2])
    \/ \E t \in Threads : \E r \in BOOLEAN, written \in Outputs(t) : CalcReturn(t, r, written)
    \/ \E t \in Threads : NativeFault(t)
    \/ \E t \in Threads, m \in Handles : get_float_features_count(t, m)
    \/ \E t \in Threads, m \in Handles : get_cat_features_count(t, m)
    \/ \E t \in Threads, m \in Handles : get_tree_count(t, m)
    \/ \E t \in Threads, m \in Handles : get_dimensions_count(t, m)
    \/ \E t \in Threads : GetterReturn(t)
    \/ \E m \in Handles : Drop(m)

SpecShared == Init /\ [][NextShared]_vars

\* ------------------------------------------------------------------ claims
InCall(t) == inflight[t].op \in Predictions \cup Getters
Owned(h) == \E m \in Handles : models[m].state = "owned" /\ models[m].handle = h
Dims(h) == native[h].content.dimensions

\* C1: every handle ModelCalcerCreate returned is deleted exactly once as soon as no
\* Model holds it (a failed or panicking load included), is never deleted while a
\* Model holds it, and is never deleted twice.
C1_CreateMatchedByOneDelete ==
    \A h \in Handles :
        /\ native[h].deletes <= 1
        /\ ~native[h].created => native[h].deletes = 0
        /\ native[h].created => (native[h].deletes = 1 <=> ~Owned(h))

\* a Model was loaded, used and dropped, another load failed, and no Model is left:
\* both handles have been deleted once
C1_Witness ==
    /\ \A m \in Handles : models[m].state # "owned"
    /\ \E t, u \in Threads :
          /\ last[t].op \in Loaders /\ last[t].result.kind = "Err"
          /\ native[last[t].model].deletes = 1
          /\ last[u].op \in Getters /\ last[u].model # last[t].model
          /\ native[last[u].model].deletes = 1

\* a non-empty batch whose float rows differ in width, or whose float and categorical
\* row counts differ
BadShape(ff, cf) ==
    /\ Len(ff) >= 1 /\ Len(cf) >= 1
    /\ \/ Len(ff) # Len(cf)
       \/ \E i, j \in 1..Len(ff) : Len(ff[i]) # Len(ff[j])

\* C2: a prediction on a non-empty batch with float rows of unequal width, or with
\* different numbers of float and categorical rows, returns InvalidInput and issues
\* no native call (no hash call, no prediction call).
C2_ShapeValidated ==
    \A t \in Threads :
        /\ inflight[t].op \in Predictions => ~BadShape(inflight[t].ff, inflight[t].cf)
        /\ (last[t].op \in Predictions /\ BadShape(last[t].ff, last[t].cf))
              => /\ last[t].result.kind = "InvalidInput"
                 /\ last[t].calls = 0 /\ last[t].hashes = 0

\* C3: a prediction on a batch with no float rows or no categorical rows ends in a
\* typed result, with no native call made, never in a panic.
C3_EmptyBatchTyped ==
    \A t \in Threads :
        (last[t].op \in Predictions /\ (Len(last[t].ff) = 0 \/ Len(last[t].cf) = 0))
            => /\ last[t].result.kind \in {"Ok", "InvalidInput"}
               /\ last[t].calls = 0 /\ last[t].hashes = 0

C5_LoadAlwaysReturns ==
    \A t \in Threads : last[t].op = "load" => last[t].result.kind \in {"Ok", "Err"}

\* C6: the prediction call is given an output buffer of rows x dimensions entries, and a
\* successful prediction returns rows x dimensions entries.
C6_OutputIsRowsTimesDims ==
    \A t \in Threads :
        /\ inflight[t].op \in Predictions
              => inflight[t].args.result_size
                    = inflight[t].args.doc_count * Dims(inflight[t].args.handle)
        /\ (last[t].op \in Predictions /\ last[t].result.kind = "Ok"
              /\ models[last[t].model].state = "owned")
              => Len(last[t].result.val) = Len(last[t].ff) * Dims(models[last[t].model].handle)

\* C7: a loader or a prediction issues its boolean-returning native call at most once;
\* when that call returned false the operation ends in Err (and the loader's Model is
\* gone); an operation ends in Ok only when the call returned true.
C7_StatusCheckedNoRetry ==
    \A t \in Threads :
        last[t].op \in Loaders \cup Predictions =>
            /\ last[t].calls <= 1
            /\ last[t].ret = "false" => last[t].result.kind = "Err"
            /\ (last[t].ret = "false" /\ last[t].op \in Loaders)
                  => models[last[t].model].state # "owned"
            /\ last[t].result.kind = "Ok" => (last[t].ret = "true" /\ last[t].calls = 1)

\* one thread's prediction and another thread's load have both seen their native call
\* fail
C7_Witness ==
    \E t, u \in Threads :
        /\ last[t].op \in Predictions /\ last[t].ret = "false" /\ last[t].calls = 1
        /\ last[t].result.kind = "Err"
        /\ last[u].op \in Loaders /\ last[u].ret = "false" /\ last[u].calls = 1
        /\ last[u].result.kind = "Err"

\* 1/(1+e^{-x}) in thousandths
Logistic(x) == 1000000 \div (1000 + ExpMilli(-x))

\* C8: calc_predict_proba ends in Ok exactly when its calc_model_prediction did; then
\* the result has the raw result's length and its i-th entry is the logistic transform
\* of the i-th raw score; otherwise it is the raw call's own outcome.
C8_ProbaIsLogisticOfRaw ==
    \A t \in Threads :
        last[t].op = "calc_predict_proba" =>
            /\ (last[t].result.kind = "Ok") <=> (last[t].raw.kind = "Ok")
            /\ last[t].raw.kind = "Ok" =>
                  /\ Len(last[t].result.val) = Len(last[t].raw.val)
                  /\ \A i \in 1..Len(last[t].raw.val) :
                        last[t].result.val[i] = Logistic(last[t].raw.val[i])
            /\ last[t].raw.kind # "Ok" => last[t].result = last[t].raw

\* a successful calc_predict_proba over two rows with different raw scores
C8_Witness ==
    \E t \in Threads :
        /\ last[t].op = "calc_predict_proba" /\ last[t].result.kind = "Ok"
        /\ Len(last[t].raw.val) = 2 /\ last[t].raw.val[1] # last[t].raw.val[2]

\* C9: while a Model is held, its handle field equals the handle it was constructed
\* with, whatever calls the threads sharing it have begun or finished.
C9_HandleNeverMutated ==
    \A m \in Handles : models[m].state = "owned" => models[m].handle = models[m].initial

\* two threads are inside calls on the same Model, one scoring and one introspecting
C9_Witness ==
    \E m \in Handles, t, u \in Threads :
        /\ models[m].state = "owned" /\ models[m].handle = models[m].initial
        /\ inflight[t].op \in Predictions /\ inflight[t].model = m
        /\ inflight[u].op \in Getters /\ inflight[u].model = m

\* C10: a call in flight is on a handle that was created and has not been deleted: no
\* call starts after ModelCalcerDelete, and no delete happens during a call.
C10_NoCallOnDeletedHandle ==
    \A t \in Threads :
        InCall(t) => /\ native[inflight[t].args.handle].created
                     /\ native[inflight[t].args.handle].deletes = 0

\* a Model was dropped after a thread's call on it returned, while another thread is
\* inside a call on another Model
C10_Witness ==
    \E m \in Handles, t, u \in Threads :
        /\ models[m].state = "dropped" /\ native[m].deletes = 1
        /\ last[t].op \in Predictions \cup Getters /\ last[t].model = m
        /\ InCall(u) /\ inflight[u].model # m
====
